---- MODULE Spec2Model ----
(***************************************************************************)
(* Model of run.py, the HDL library test runner: the reference file codec  *)
(* (generateAxiFileReaderTestFile), the error-variant derivations and the  *)
(* file caches of addAxiFileCompareTests / addAxiFileReaderTests, and the  *)
(* test matrix that main / addTests register.                              *)
(*                                                                         *)
(* Text is modelled character by character: a string is a sequence of      *)
(* one-character strings.  The content of a text file is the sequence of   *)
(* its newline-separated segments, so "a\nb\n" is << a, b, <<>> >> and the *)
(* empty file is << <<>> >>.                                               *)
(***************************************************************************)
EXTENDS Integers, Sequences, FiniteSets, TLC

VARIABLES
    fs,          \* the files under vunit_out: path -> [exists, mtime, data]
    now,         \* the filesystem clock
    gen_mtime,   \* p.getmtime(__file__)
    configs,     \* the configurations registered by the running process
    seed,        \* args.seed of the running process
    pc,          \* position of the running process
    outcome,     \* how the last call ended: "idle", "ok" or "error"
    data_width,  \* argument of the codec call under study
    length,      \* argument of the codec call under study
    test_data    \* the bytes the codec call drew

vars == <<fs, now, gen_mtime, configs, seed, pc, outcome, data_width, length, test_data>>

(***************************************************************************)
(* Bounds and input samples                                                *)
(***************************************************************************)
\* Longest byte sequence handed to the codec on its own.
MaxLen == 4

\* The byte values the random draws are taken from.
ByteSamples == {0, 1, 2, 165, 255}

\* The data widths the codec is called with on its own.
Widths == {1, 2, 3, 4, 5, 6, 7, 8, 16, 24, 32, 64}

(***************************************************************************)
(* Integers wider than 32 bits: hi * 2^16 + lo with 0 <= lo < 2^16         *)
(***************************************************************************)
Wide(h, l) == [hi |-> h, lo |-> l]

WideLeq(a, b) == a.hi < b.hi \/ (a.hi = b.hi /\ a.lo <= b.lo)

\* k << 31, for a small k
Shl31(k) == Wide(k * (2 ^ 15), 0)

(***************************************************************************)
(* Text helpers                                                            *)
(***************************************************************************)
EmptyStr == <<>>

HexDigits == <<"0", "1", "2", "3", "4", "5", "6", "7",
               "8", "9", "a", "b", "c", "d", "e", "f">>

Min(a, b) == IF a < b THEN a ELSE b

RECURSIVE Repeat(_, _)
\* n * [x]
Repeat(x, n) == IF n <= 0 THEN <<>> ELSE <<x>> \o Repeat(x, n - 1)

RECURSIVE ToHex(_)
\* format(n, "x"): the hexadecimal digits of n, no padding
ToHex(n) ==
    IF n < 16 THEN <<HexDigits[n + 1]>>
    ELSE ToHex(n \div 16) \o <<HexDigits[(n % 16) + 1]>>

\* zero fill on the left up to a minimum number of digits ("%02x", "%.Nx")
ZeroFill(s, digits) == Repeat("0", digits - Len(s)) \o s

RECURSIVE Bin(_)
\* bin(n)[2:]
Bin(n) ==
    IF n < 2 THEN <<HexDigits[n + 1]>>
    ELSE Bin(n \div 2) \o <<HexDigits[(n % 2) + 1]>>

RECURSIVE Reversed(_)
Reversed(s) == IF s = <<>> THEN <<>> ELSE Reversed(Tail(s)) \o <<Head(s)>>

RECURSIVE IntBase2(_)
\* int(s, 2)
IntBase2(s) ==
    IF s = <<>> THEN 0
    ELSE 2 * IntBase2(SubSeq(s, 1, Len(s) - 1)) + (IF s[Len(s)] = "1" THEN 1 ELSE 0)

RECURSIVE Join(_, _)
\* sep.join(parts), parts a list of strings
Join(sep, parts) ==
    IF parts = <<>> THEN EmptyStr
    ELSE IF Len(parts) = 1 THEN parts[1]
    ELSE parts[1] \o sep \o Join(sep, Tail(parts))

RECURSIVE Split(_, _)
\* s.split(ch): always at least one part
Split(s, ch) ==
    IF \A i \in 1..Len(s) : s[i] # ch THEN <<s>>
    ELSE LET k == CHOOSE i \in 1..Len(s) : s[i] = ch /\ \A j \in 1..(i - 1) : s[j] # ch
         IN <<SubSeq(s, 1, k - 1)>> \o Split(SubSeq(s, k + 1, Len(s)), ch)

\* s[:n] and s[n:]
Take(s, n) == SubSeq(s, 1, Min(n, Len(s)))
Drop(s, n) == SubSeq(s, n + 1, Len(s))

(***************************************************************************)
(* Files                                                                   *)
(***************************************************************************)
Absent == [exists |-> FALSE, mtime |-> 0, data |-> <<>>]

\* a file written at time t
Written(d, t) == [exists |-> TRUE, mtime |-> t, data |-> d]

\* the content of a text file holding "\n".join(lines)
JoinLines(lines) == IF lines = <<>> THEN <<EmptyStr>> ELSE lines

\* the content after fd.write("\n")
WriteNewline(content) ==
    SubSeq(content, 1, Len(content) - 1) \o <<content[Len(content)], EmptyStr>>

(***************************************************************************)
(* generateAxiFileReaderTestFile                                           *)
(***************************************************************************)
\* f"{byte:02x}"
FormatByte(byte) == ZeroFill(ToHex(byte), 2)

\* tkeep_fmt % tkeep, with tkeep_fmt = f"%.{data_width//8//4}x"
FormatKeep(w, tkeep) == ZeroFill(ToHex(tkeep), (w \div 8) \div 4)

\* line.insert(0, f"{byte:02x}")
InsertByteAtEnd(line, byte) == line \o <<FormatByte(byte)>>
InsertByte(line, byte) == <<FormatByte(byte)>> \o line

\* (1 << len(line)) - 1
KeepMask(line) == 2 ^ Len(line) - 1

\* if tlast: tkeep = (1 << len(line)) - 1
KeepOfEveryWindow(tlast, line, tkeep) == KeepMask(line)
KeepOfWindow(tlast, line, tkeep) == IF tlast THEN KeepMask(line) ELSE tkeep

\* ",".join(["".join(line), tkeep_fmt % tkeep, "1" if tlast else "0"])
AlignedRecord(w, line, tkeep, tlast) ==
    Join(<<",">>, <<Join(EmptyStr, line), FormatKeep(w, tkeep),
                    IF tlast THEN <<"1">> ELSE <<"0">> >>)

\* the test "8 * (i + 1) % data_width == 0", i counted from 1 here
WindowCompleteOffByOne(i, w) == (8 * (i - 1)) % w = 0
WindowComplete(i, w) == (8 * i) % w = 0

\* the body of "for i, byte in enumerate(test_data)" (i counted from 1
\* here), from the loop's variables before it to those after it
AlignedBody(st, i, data, w) ==
    LET line1 == InsertByte(st.line, data[i])
        tlast == (i = Len(data))
    IN IF WindowComplete(i, w)
       THEN LET tkeep1 == KeepOfWindow(tlast, line1, st.tkeep)
            IN [line |-> <<>>, tkeep |-> tkeep1,
                lines |-> Append(st.lines, AlignedRecord(w, line1, tkeep1, tlast))]
       ELSE [line |-> line1, tkeep |-> st.tkeep, lines |-> st.lines]

RECURSIVE AlignedLoop(_, _, _, _, _)
\* the body run for i = lo, lo + 1, ..., hi in this order: the first half
\* of the range, then the second half from where the first half ended
AlignedLoop(lo, hi, st, data, w) ==
    IF lo > hi THEN st
    ELSE IF lo = hi THEN AlignedBody(st, lo, data, w)
    ELSE LET mid == (lo + hi) \div 2
             half == AlignedLoop(lo, mid, st, data, w)
         IN IF half.tkeep >= 0   \* the first half is run before the second
            THEN AlignedLoop(mid + 1, hi, half, data, w)
            ELSE half

\* line = (data_width // 8 - len(line)) * ["00"] + line
PadLine(w, line) == Repeat(<<"0", "0">>, (w \div 8) - Len(line)) \o line

\* the branch "if data_width >= 8"
AlignedLines(data, w) ==
    LET r == AlignedLoop(1, Len(data), [line |-> <<>>, tkeep |-> 0, lines |-> <<>>], data, w)
    IN IF r.line # <<>>
       THEN Append(r.lines, AlignedRecord(w, PadLine(w, r.line), KeepMask(r.line), TRUE))
       ELSE r.lines

\* little_endian_word + "0" * (8 - len(little_endian_word))
FlattenByte(byte) ==
    LET little_endian_word == Reversed(Bin(byte))
    IN little_endian_word \o Repeat("0", 8 - Len(little_endian_word))

RECURSIVE FlattenedBinData(_)
FlattenedBinData(data) ==
    IF data = <<>> THEN EmptyStr
    ELSE FlattenByte(Head(data)) \o FlattenedBinData(Tail(data))

\* word = int(flattened_bin_data[:data_width], 2)
SliceWord(flattened_bin_data, w) == IntBase2(Take(flattened_bin_data, w))

RECURSIVE SliceLoop(_, _, _)
\* while flattened_bin_data: ...
SliceLoop(flattened_bin_data, w, lines) ==
    IF flattened_bin_data = EmptyStr THEN lines
    ELSE LET word == SliceWord(flattened_bin_data, w)
             rest == Drop(flattened_bin_data, w)
             tlast == (rest = EmptyStr)
         IN SliceLoop(rest, w,
                Append(lines, Join(<<",">>, <<ToHex(word), EmptyStr,
                                              IF tlast THEN <<"1">> ELSE <<"0">> >>)))

\* the branch "else" (data_width < 8)
SubByteLines(data, w) == SliceLoop(FlattenedBinData(data), w, <<>>)

ReferenceLines(data, w) ==
    IF w >= 8 THEN AlignedLines(data, w) ELSE SubByteLines(data, w)

\* fd.write("\n".join(lines)); fd.write("\n")
ReferenceContent(data, w) == WriteNewline(JoinLines(ReferenceLines(data, w)))

\* The files after a call that drew the bytes data at time t.
generateAxiFileReaderTestFile(files, test_file, reference_file, w, data, t) ==
    [files EXCEPT ![test_file] = Written(data, t),
                  ![reference_file] = Written(ReferenceContent(data, w), t)]

(***************************************************************************)
(* The codec on its own: the arguments are drawn at the start, one call    *)
(* draws the bytes and writes the pair of files.                           *)
(***************************************************************************)
CodecFiles == {"test_file", "reference_file"}

CodecInit ==
    /\ fs = [f \in CodecFiles |-> Absent]
    /\ now = 0
    /\ gen_mtime = 0
    /\ configs = <<>>
    /\ seed = Wide(0, 0)
    /\ pc = "call"
    /\ outcome = "idle"
    /\ data_width \in Widths
    /\ length \in 1..MaxLen
    /\ test_data = <<>>

Generate ==
    /\ pc = "call"
    /\ \E data \in [1..length -> ByteSamples] :
          /\ test_data' = data
          /\ fs' = generateAxiFileReaderTestFile(fs, "test_file", "reference_file",
                                                 data_width, data, now)
    /\ pc' = "written"
    /\ outcome' = "ok"
    /\ UNCHANGED <<now, gen_mtime, configs, seed, data_width, length>>

CodecNext == Generate

SpecCodec == CodecInit /\ [][CodecNext]_vars

(***************************************************************************)
(* Random bytes of the builds: random.randint(0, 255) drawn length times,  *)
(* taken from a small family of sequences indexed by the draw.             *)
(***************************************************************************)
Draws == {0, 1}

Drawn(d, n) == SubSeq([i \in 1..n |-> (37 * i + 101 * d + (i \div 5) * (d + 1)) % 256], 1, n)

(***************************************************************************)
(* addAxiFileCompareTests                                                  *)
(***************************************************************************)
CompareTestFile == "file_compare_input.bin"
CompareReferenceFile == "file_compare_reference_ok.bin"
TdataSingleErrorFile == "file_compare_reference_tdata_1_error.bin"
TdataTwoErrorsFile == "file_compare_reference_tdata_2_errors.bin"
TlastErrorFile == "file_compare_reference_tlast_error.bin"

CompareFiles == {CompareTestFile, CompareReferenceFile, TdataSingleErrorFile,
                 TdataTwoErrorsFile, TlastErrorFile}

\* data_width=32, length=32 * 8
CompareDataWidth == 32
CompareLength == 256

\* seq[a:b] of Python, 0-based, b exclusive, clipped to the sequence
Slice(seq, a, b) == SubSeq(seq, a + 1, Min(b, Len(seq)))

\* seq[k] of Python, 0-based: defined when the index exists
HasIndex(seq, k) == k < Len(seq)
At(seq, k) == seq[k + 1]

\* if not (p.exists(test_file) and p.exists(reference_file)): generate
CompareMustGenerate(files) ==
    ~(files[CompareTestFile].exists /\ files[CompareReferenceFile].exists)

CompareGenerate(files, d, t) ==
    IF CompareMustGenerate(files)
    THEN generateAxiFileReaderTestFile(files, CompareTestFile, CompareReferenceFile,
                                       CompareDataWidth, Drawn(d, CompareLength), t)
    ELSE files

\* ref_data[:7] + [ref_data[8]] + ref_data[8:]
SingleErrorInserted(ref_data) ==
    Slice(ref_data, 0, 7) \o <<At(ref_data, 7)>> \o Slice(ref_data, 7, Len(ref_data))
SingleErrorData(ref_data) ==
    Slice(ref_data, 0, 7) \o <<At(ref_data, 8)>> \o Slice(ref_data, 8, Len(ref_data))

\* ref_data[:7] + [ref_data[8], ref_data[8]] + ref_data[9:16] + [ref_data[17]] + ref_data[17:]
TwoErrorsData(ref_data) ==
    Slice(ref_data, 0, 7) \o <<At(ref_data, 8), At(ref_data, 8)>> \o Slice(ref_data, 9, 16)
        \o <<At(ref_data, 17)>> \o Slice(ref_data, 17, Len(ref_data))

RECURSIVE StripLeft(_)
StripLeft(content) ==
    IF Len(content) > 1 /\ Head(content) = EmptyStr THEN StripLeft(Tail(content))
    ELSE content

RECURSIVE StripRight(_)
StripRight(content) ==
    IF Len(content) > 1 /\ content[Len(content)] = EmptyStr
    THEN StripRight(SubSeq(content, 1, Len(content) - 1))
    ELSE content

\* fd.read().strip().split(b"\n"): the lines hold no blanks, so strip drops
\* the empty segments at both ends
Strip(content) == StripRight(StripLeft(content))

\* last_entry = ref_data[-1].split(b","); ref_data[:-1] + [b",".join([last_entry[0], b"0", b"0"])]
TlastErrorData(ref_data) ==
    LET last_entry == Split(ref_data[Len(ref_data)], ",")
    IN SubSeq(ref_data, 1, Len(ref_data) - 1)
           \o <<Join(<<",">>, <<last_entry[1], <<"0">>, <<"0">> >>)>>

\* The file is opened for writing before the data is built: an IndexError
\* while building it leaves the file created and empty.
DeriveInto(files, path, needed, data, t) ==
    LET ref_data == files[CompareReferenceFile].data
    IN IF \A k \in needed : HasIndex(ref_data, k)
       THEN [fs |-> [files EXCEPT ![path] = Written(JoinLines(data), t)], ok |-> TRUE]
       ELSE [fs |-> [files EXCEPT ![path] = Written(<<EmptyStr>>, t)], ok |-> FALSE]

\* if not p.exists(tdata_single_error_file): ...
SingleErrorStep(files, t) ==
    IF files[TdataSingleErrorFile].exists THEN [fs |-> files, ok |-> TRUE]
    ELSE LET ref_data == files[CompareReferenceFile].data
         IN DeriveInto(files, TdataSingleErrorFile, {8},
                       IF HasIndex(ref_data, 8) THEN SingleErrorData(ref_data) ELSE <<>>, t)

\* if not p.exists(tdata_two_errors_file): ...
TwoErrorsStep(files, t) ==
    IF files[TdataTwoErrorsFile].exists THEN [fs |-> files, ok |-> TRUE]
    ELSE LET ref_data == files[CompareReferenceFile].data
         IN DeriveInto(files, TdataTwoErrorsFile, {8, 17},
                       IF HasIndex(ref_data, 17) THEN TwoErrorsData(ref_data) ELSE <<>>, t)

\* if not p.exists(tlast_error_file): ...
TlastErrorStep(files, t) ==
    IF files[TlastErrorFile].exists THEN [fs |-> files, ok |-> TRUE]
    ELSE [fs |-> [files EXCEPT ![TlastErrorFile] =
                     Written(JoinLines(TlastErrorData(Strip(files[CompareReferenceFile].data))), t)],
          ok |-> TRUE]

\* entity.add_config(name="all", generics=dict(...))
CompareConfig(s) ==
    [entity |-> "axi_file_compare_tb", name |-> "all",
     generics |-> [input_file |-> CompareTestFile,
                   reference_file |-> CompareReferenceFile,
                   tdata_single_error_file |-> TdataSingleErrorFile,
                   tdata_two_errors_file |-> TdataTwoErrorsFile,
                   tlast_error_file |-> TlastErrorFile,
                   seed |-> s]]

\* The whole call: the files it leaves, whether it returned (ok) or raised,
\* and the configurations it added.
addAxiFileCompareTests(files, s, d, t) ==
    LET f0 == CompareGenerate(files, d, t)
        r1 == SingleErrorStep(f0, t)
        r2 == IF r1.ok THEN TwoErrorsStep(r1.fs, t) ELSE r1
        r3 == IF r2.ok THEN TlastErrorStep(r2.fs, t) ELSE r2
    IN [fs |-> r3.fs, ok |-> r3.ok,
        added |-> IF r3.ok THEN <<CompareConfig(s)>> ELSE <<>>]

(***************************************************************************)
(* Reading a reference log back                                            *)
(***************************************************************************)
\* the records of a log: each line split into its fields word, keep, last
Records(content) == [i \in 1..(Len(content) - 1) |-> Split(content[i], ",")]

HexValue(ch) == CHOOSE d \in 0..15 : HexDigits[d + 1] = ch

RECURSIVE ParseHex(_)
ParseHex(s) ==
    IF s = <<>> THEN 0
    ELSE 16 * ParseHex(SubSeq(s, 1, Len(s) - 1)) + HexValue(s[Len(s)])

\* byte lane j of a word, lane 1 the least significant
Lane(word, j) == ParseHex(SubSeq(word, Len(word) - 2 * j + 1, Len(word) - 2 * j + 2))

RECURSIVE KeptLanes(_, _, _, _)
\* the lanes j..n of a word whose bit is set in the keep mask
KeptLanes(word, keep, j, n) ==
    IF j > n THEN <<>>
    ELSE (IF (keep \div (2 ^ (j - 1))) % 2 = 1 THEN <<Lane(word, j)>> ELSE <<>>)
         \o KeptLanes(word, keep, j + 1, n)

RECURSIVE DecodeFrom(_, _, _)
\* the bytes of records i.. : every lane of a record before the final one,
\* the lanes the keep mask names of the final one
DecodeFrom(recs, i, w) ==
    IF i > Len(recs) THEN <<>>
    ELSE IF i = Len(recs)
         THEN KeptLanes(recs[i][1], ParseHex(recs[i][2]), 1, w \div 8)
         ELSE KeptLanes(recs[i][1], 2 ^ (w \div 8) - 1, 1, w \div 8)
              \o DecodeFrom(recs, i + 1, w)

Decode(content, w) == DecodeFrom(Records(content), 1, w)

\* ceil(a / b)
CeilDiv(a, b) == (a + b - 1) \div b

Called == pc = "written"
ByteAligned == data_width % 8 = 0
Reference == fs["reference_file"].data

\* C1: for a byte-aligned width, decoding the reference log (words read from
\* the least significant byte up, the final record trimmed by its keep mask)
\* gives back the bytes that were encoded.
RoundTripByteAligned ==
    (Called /\ ByteAligned) => Decode(Reference, data_width) = test_data

\* a call with a partial final window whose last byte is zero
RoundTripWitness ==
    /\ Called /\ data_width = 32 /\ Len(test_data) = 3
    /\ test_data[3] = 0 /\ test_data[1] = 255
    /\ Decode(Reference, data_width) = test_data

\* C2 as stated: every record of a complete window carries the full keep
\* mask, and [1, 2] at width 8 is written as "01,1,0\n02,1,1\n".
CompleteWindowsCarryFullKeep ==
    (Called /\ ByteAligned) =>
        /\ \A i \in 1..Len(Records(Reference)) :
              i * (data_width \div 8) <= Len(test_data) =>
                  ParseHex(Records(Reference)[i][2]) = 2 ^ (data_width \div 8) - 1
        /\ (data_width = 8 /\ test_data = <<1, 2>>) =>
              Reference = << <<"0", "1", ",", "1", ",", "0">>,
                             <<"0", "2", ",", "1", ",", "1">>, EmptyStr >>

\* C2 amended: only the final record carries a keep mask, (1 << n) - 1 for
\* the n bytes of its window (so the full mask when its window is complete);
\* every earlier record carries keep mask 0, and [1, 2] at width 8 is
\* written as "01,0,0\n02,1,1\n".
OnlyFinalRecordCarriesKeep ==
    (Called /\ ByteAligned) =>
        LET recs == Records(Reference)
            wb == data_width \div 8
            n == Len(test_data) - (Len(recs) - 1) * wb
        IN /\ \A i \in 1..(Len(recs) - 1) : ParseHex(recs[i][2]) = 0
           /\ ParseHex(recs[Len(recs)][2]) = 2 ^ n - 1
           /\ (n = wb) => ParseHex(recs[Len(recs)][2]) = 2 ^ wb - 1
           /\ (data_width = 8 /\ test_data = <<1, 2>>) =>
                 Reference = << <<"0", "1", ",", "0", ",", "0">>,
                                <<"0", "2", ",", "1", ",", "1">>, EmptyStr >>

\* the example call: bytes [1, 2] at width 8
KeepWitness ==
    /\ Called /\ data_width = 8 /\ test_data = <<1, 2>>
    /\ Len(Records(Reference)) = 2

\* C3: for a byte-aligned width the log has ceil(len * 8 / W) records, and
\* the final record is the only one with last = 1.
RecordCountAndLast ==
    (Called /\ ByteAligned) =>
        LET recs == Records(Reference)
        IN /\ Len(recs) = CeilDiv(Len(test_data) * 8, data_width)
           /\ \A i \in 1..Len(recs) : (recs[i][3] = <<"1">>) <=> (i = Len(recs))
           /\ \A i \in 1..Len(recs) : recs[i][3] \in {<<"0">>, <<"1">>}

\* three bytes at width 16: two records, the second partial
RecordCountWitness ==
    /\ Called /\ data_width = 16 /\ Len(test_data) = 3
    /\ Len(Records(Reference)) = 2

\* the flattened bit string of a byte sequence, each byte least significant
\* bit first
FlatBits(data) ==
    [i \in 1..(8 * Len(data)) |-> (data[((i - 1) \div 8) + 1] \div (2 ^ ((i - 1) % 8))) % 2]

\* slice k of width w of a bit string, a short final slice zero filled at its end
PaddedSlice(bits, k, w) ==
    [j \in 1..w |-> IF (k - 1) * w + j <= Len(bits) THEN bits[(k - 1) * w + j] ELSE 0]

\* a value as a w-bit pattern, most significant bit first
BitPattern(v, w) == [j \in 1..w |-> (v \div (2 ^ (w - j))) % 2]

\* C8 as stated: for a width below 8 the word of record k is slice k of the
\* flattened bit string, a short final slice padded with trailing zeros.
SubByteSlices ==
    (Called /\ data_width < 8) =>
        LET recs == Records(Reference)
            bits == FlatBits(test_data)
        IN /\ Len(recs) = CeilDiv(Len(bits), data_width)
           /\ \A k \in 1..Len(recs) :
                 BitPattern(ParseHex(recs[k][1]), data_width) = PaddedSlice(bits, k, data_width)

(***************************************************************************)
(* The file-compare matrix built again and again (one process per build),  *)
(* while files are removed and the base reference log is replaced from     *)
(* outside between the builds.                                             *)
(***************************************************************************)
\* line counts of the base reference logs put in place from outside
ExternalLineCounts == {5, 16, 17}

CompareInit ==
    /\ fs = [f \in CompareFiles |-> Absent]
    /\ now = 0
    /\ gen_mtime = 0
    /\ configs = <<>>
    /\ seed = Wide(0, 0)
    /\ pc = "idle"
    /\ outcome = "idle"
    /\ data_width = CompareDataWidth
    /\ length = CompareLength
    /\ test_data = <<>>

CompareBuild ==
    /\ \E d \in Draws :
          \E r \in {addAxiFileCompareTests(fs, seed, d, now)} :
             /\ fs' = r.fs
             /\ configs' = r.added
             /\ outcome' = IF r.ok THEN "ok" ELSE "error"
    /\ UNCHANGED <<now, gen_mtime, seed, pc, data_width, length, test_data>>

RemoveFile ==
    /\ \E f \in DOMAIN fs :
          /\ fs[f].exists
          /\ fs' = [fs EXCEPT ![f] = Absent]
    /\ configs' = <<>>
    /\ outcome' = "idle"
    /\ UNCHANGED <<now, gen_mtime, seed, pc, data_width, length, test_data>>

ReplaceReference ==
    /\ \E k \in ExternalLineCounts :
          fs' = [fs EXCEPT ![CompareReferenceFile] =
                    Written(ReferenceContent(Drawn(k, k * (CompareDataWidth \div 8)),
                                             CompareDataWidth), now)]
    /\ configs' = <<>>
    /\ outcome' = "idle"
    /\ UNCHANGED <<now, gen_mtime, seed, pc, data_width, length, test_data>>

CompareNext == CompareBuild \/ RemoveFile \/ ReplaceReference

SpecCompare == CompareInit /\ [][CompareNext]_vars

\* the number of newline-terminated lines of a file
LineCount(content) == Len(content) - 1

BaseLog == fs[CompareReferenceFile].data

\* a build step that wrote the file at path
Wrote(path) == outcome' # "idle" /\ ~fs[path].exists /\ fs'[path].exists

\* C4 as stated: from a base of at least 17 lines the single mismatch
\* variant is written with len(base) + 1 lines and the double mismatch
\* variant with len(base) + 2 lines.
MismatchAddsLines ==
    [][LineCount(fs'[CompareReferenceFile].data) >= 17 =>
          /\ Wrote(TdataSingleErrorFile) =>
                LineCount(fs'[TdataSingleErrorFile].data)
                    = LineCount(fs'[CompareReferenceFile].data) + 1
          /\ Wrote(TdataTwoErrorsFile) =>
                LineCount(fs'[TdataTwoErrorsFile].data)
                    = LineCount(fs'[CompareReferenceFile].data) + 2]_vars

\* C4 amended: from a base of at least 17 lines both variants are written
\* with exactly len(base) lines; the single mismatch variant is the base
\* with line 7 replaced by a copy of line 8 (base line 7 is dropped).
MismatchKeepsLineCount ==
    [][LineCount(fs'[CompareReferenceFile].data) >= 17 =>
          LET base == fs'[CompareReferenceFile].data
              single == fs'[TdataSingleErrorFile].data
              double == fs'[TdataTwoErrorsFile].data
          IN /\ Wrote(TdataSingleErrorFile) =>
                   /\ LineCount(single) = LineCount(base)
                   /\ \A i \in 0..(LineCount(base) - 1) :
                         At(single, i) = IF i = 7 THEN At(base, 8) ELSE At(base, i)
                   /\ single[Len(single)] = EmptyStr
             /\ Wrote(TdataTwoErrorsFile) => LineCount(double) = LineCount(base)]_vars

\* a build has derived both mismatch variants from a base of exactly 17 lines
MismatchWitness ==
    /\ outcome = "ok"
    /\ LineCount(BaseLog) = 17
    /\ fs[TdataSingleErrorFile].data = SingleErrorData(BaseLog)
    /\ fs[TdataTwoErrorsFile].data = TwoErrorsData(BaseLog)

\* C6 as stated: with a base log shorter than 17 lines no build returns and
\* registers "all" while an error variant is empty, also not a build that
\* follows builds that raised.
ShortBaseIsFatal ==
    (outcome # "idle" /\ LineCount(BaseLog) < 17
        /\ \E f \in {TdataSingleErrorFile, TdataTwoErrorsFile} :
              fs[f].exists /\ fs[f].data = <<EmptyStr>>)
    => (outcome = "error" /\ configs = <<>>)

\* C10 as stated: a build that regenerates the base pair and returns leaves
\* every error variant derived from the base log now on disk.
VariantsFollowBase ==
    [][(outcome' = "ok" /\ CompareMustGenerate(fs)) =>
          LET base == fs'[CompareReferenceFile].data
          IN /\ fs'[TdataSingleErrorFile].data = JoinLines(SingleErrorData(base))
             /\ fs'[TdataTwoErrorsFile].data = JoinLines(TwoErrorsData(base))
             /\ fs'[TlastErrorFile].data = JoinLines(TlastErrorData(Strip(base)))]_vars

(***************************************************************************)
(* addAxiFileReaderTests                                                   *)
(***************************************************************************)
\* the latest filesystem time of the model
MaxTime == 2

Max(a, b) == IF a > b THEN a ELSE b

RECURSIVE Concat(_)
\* the lists of a list, one after the other
Concat(lists) == IF lists = <<>> THEN <<>> ELSE Head(lists) \o Concat(Tail(lists))

\* configs = {1: [1, 2], 8: [1, 8, 16, 24], 16: [1, 2, 3, 4, 8, 9], 64: [16, 17, 18, 19]}
ReaderConfigs ==
    << [data_width |-> 1, length_list |-> <<1, 2>>],
       [data_width |-> 8, length_list |-> <<1, 8, 16, 24>>],
       [data_width |-> 16, length_list |-> <<1, 2, 3, 4, 8, 9>>],
       [data_width |-> 64, length_list |-> <<16, 17, 18, 19>>] >>

\* f"file_reader_data_width_{data_width}_length_{length}_bytes"
ReaderBasename(w, n) ==
    "file_reader_data_width_" \o ToString(w) \o "_length_" \o ToString(n) \o "_bytes"

ReaderTestFile(w, n) == ReaderBasename(w, n) \o "_input.bin"
ReaderReferenceFile(w, n) == ReaderBasename(w, n) \o "_reference.bin"

\* every (data_width, length) of the matrix
ReaderPairs ==
    Concat([c \in 1..Len(ReaderConfigs) |->
               [k \in 1..Len(ReaderConfigs[c].length_list) |->
                   <<ReaderConfigs[c].data_width, ReaderConfigs[c].length_list[k]>>]])

ReaderFiles ==
    UNION {{ReaderTestFile(ReaderPairs[i][1], ReaderPairs[i][2]),
            ReaderReferenceFile(ReaderPairs[i][1], ReaderPairs[i][2])} : i \in 1..Len(ReaderPairs)}

\* not (p.exists(test_file) and p.exists(reference_file))
\*     or (p.getmtime(__file__) > max(p.getmtime(test_file), p.getmtime(reference_file)))
ReaderMustGenerate(files, test_file, reference_file, gm) ==
    \/ ~(files[test_file].exists /\ files[reference_file].exists)
    \/ gm > Max(files[test_file].mtime, files[reference_file].mtime)

\* the body of "for length in length_list" for one length
ReaderPairStep(files, w, n, d, t, gm) ==
    IF ReaderMustGenerate(files, ReaderTestFile(w, n), ReaderReferenceFile(w, n), gm)
    THEN generateAxiFileReaderTestFile(files, ReaderTestFile(w, n), ReaderReferenceFile(w, n),
                                       w, Drawn(d, n), t)
    ELSE files

RECURSIVE ReaderFilesLoop(_, _, _, _, _)
\* the files after the pairs i.. of the matrix have been looked at, in order
ReaderFilesLoop(files, i, d, t, gm) ==
    IF i > Len(ReaderPairs) THEN files
    ELSE ReaderFilesLoop(ReaderPairStep(files, ReaderPairs[i][1], ReaderPairs[i][2], d, t, gm),
                         i + 1, d, t, gm)

RECURSIVE JoinStrings(_, _)
\* sep.join(parts) on names and paths
JoinStrings(sep, parts) ==
    IF parts = <<>> THEN ""
    ELSE IF Len(parts) = 1 THEN parts[1]
    ELSE parts[1] \o sep \o JoinStrings(sep, Tail(parts))

\* entity.add_config(name=f"multiple,data_width={data_width}", generics=dict(...))
ReaderConfig(c, s) ==
    LET all_configs ==
            [k \in 1..Len(c.length_list) |->
                JoinStrings(",", <<ReaderTestFile(c.data_width, c.length_list[k]),
                                   ReaderReferenceFile(c.data_width, c.length_list[k])>>)]
    IN [entity |-> "axi_file_reader_tb",
        name |-> "multiple,data_width=" \o ToString(c.data_width),
        generics |-> [DATA_WIDTH |-> c.data_width,
                      test_cfg |-> JoinStrings("|", all_configs),
                      seed |-> s]]

\* The whole call: the files it leaves and the configurations it added.
addAxiFileReaderTests(files, s, d, t, gm) ==
    [fs |-> ReaderFilesLoop(files, 1, d, t, gm),
     ok |-> TRUE,
     added |-> [c \in 1..Len(ReaderConfigs) |-> ReaderConfig(ReaderConfigs[c], s)]]

(***************************************************************************)
(* The file-reader matrix built again and again, while time passes, the    *)
(* generator source is edited and cached files of the one-bit matrix are   *)
(* touched or removed from outside.                                        *)
(***************************************************************************)
ReaderExternalFiles ==
    {ReaderTestFile(1, 1), ReaderReferenceFile(1, 1),
     ReaderTestFile(1, 2), ReaderReferenceFile(1, 2)}

ReaderInit ==
    /\ fs = [f \in ReaderFiles |-> Absent]
    /\ now = 0
    /\ gen_mtime = 0
    /\ configs = <<>>
    /\ seed = Wide(0, 0)
    /\ pc = "idle"
    /\ outcome = "idle"
    /\ data_width = 1
    /\ length = 1
    /\ test_data = <<>>

ReaderBuild ==
    /\ \E d \in Draws :
          \E r \in {addAxiFileReaderTests(fs, seed, d, now, gen_mtime)} :
             /\ fs' = r.fs
             /\ configs' = r.added
    /\ outcome' = "ok"
    /\ UNCHANGED <<now, gen_mtime, seed, pc, data_width, length, test_data>>

Tick ==
    /\ now < MaxTime
    /\ now' = now + 1
    /\ configs' = <<>>
    /\ outcome' = "idle"
    /\ UNCHANGED <<fs, gen_mtime, seed, pc, data_width, length, test_data>>

TouchGenerator ==
    /\ gen_mtime # now
    /\ gen_mtime' = now
    /\ configs' = <<>>
    /\ outcome' = "idle"
    /\ UNCHANGED <<fs, now, seed, pc, data_width, length, test_data>>

TouchFile ==
    /\ \E f \in ReaderExternalFiles :
          /\ fs[f].exists
          /\ fs[f].mtime # now
          /\ fs' = [fs EXCEPT ![f].mtime = now]
    /\ configs' = <<>>
    /\ outcome' = "idle"
    /\ UNCHANGED <<now, gen_mtime, seed, pc, data_width, length, test_data>>

RemoveCached ==
    /\ \E f \in ReaderExternalFiles :
          /\ fs[f].exists
          /\ fs' = [fs EXCEPT ![f] = Absent]
    /\ configs' = <<>>
    /\ outcome' = "idle"
    /\ UNCHANGED <<now, gen_mtime, seed, pc, data_width, length, test_data>>

ReaderNext == ReaderBuild \/ Tick \/ TouchGenerator \/ TouchFile \/ RemoveCached

SpecReader == ReaderInit /\ [][ReaderNext]_vars

\* C5 as stated: after every build both files of every pair exist and
\* neither is older than the generator source.
FreshAfterBuild ==
    outcome = "ok" =>
        \A i \in 1..Len(ReaderPairs) :
            \A f \in {ReaderTestFile(ReaderPairs[i][1], ReaderPairs[i][2]),
                      ReaderReferenceFile(ReaderPairs[i][1], ReaderPairs[i][2])} :
                fs[f].exists /\ fs[f].mtime >= gen_mtime

(***************************************************************************)
(* The other entities of addTests                                          *)
(***************************************************************************)
\* clk_period_list = (4, 11) and the (wr_rand, rd_rand) pairs
ClkPeriodList == <<4, 11>>
RandList == << <<0, 0>>, <<3, 0>>, <<0, 3>>, <<5, 5>> >>

AsyncFifoConfig(wr_clk_period, rd_clk_period, wr_rand, rd_rand, s) ==
    [entity |-> "async_fifo_tb",
     name |-> JoinStrings(",", <<"wr_clk_period=" \o ToString(wr_clk_period),
                                "rd_clk_period=" \o ToString(rd_clk_period),
                                "wr_rand=" \o ToString(wr_rand),
                                "rd_rand=" \o ToString(rd_rand)>>),
     generics |-> [WR_CLK_PERIOD_NS |-> wr_clk_period,
                   RD_CLK_PERIOD_NS |-> rd_clk_period,
                   WR_EN_RANDOM |-> wr_rand,
                   RD_EN_RANDOM |-> rd_rand,
                   SEED |-> s]]

\* the three nested loops, in order
addAsyncFifoTests(s) ==
    Concat([i \in 1..Len(ClkPeriodList) |->
        Concat([j \in 1..Len(ClkPeriodList) |->
            [k \in 1..Len(RandList) |->
                AsyncFifoConfig(ClkPeriodList[i], ClkPeriodList[j],
                                RandList[k][1], RandList[k][2], s)]])])

\* for delay in (1, 2, 8)
DelayList == <<1, 2, 8>>

addAxiStreamDelayTests(s) ==
    [k \in 1..Len(DelayList) |->
        [entity |-> "axi_stream_delay_tb",
         name |-> "delay=" \o ToString(DelayList[k]),
         generics |-> [DELAY_CYCLES |-> DelayList[k], SEED |-> s]]]

RECURSIVE InOrder(_)
\* the elements of a set of integers one after the other (Python leaves the
\* order a set is iterated in open; ascending here)
InOrder(S) ==
    IF S = {} THEN <<>>
    ELSE LET m == CHOOSE x \in S : \A y \in S : x <= y
         IN <<m>> \o InOrder(S \ {m})

InputDataWidths == {1, 8, 24, 32, 128}
OutputDataWidths == {1, 3, 8, 24, 32, 128}

\* if output_data_width >= input_data_width: continue
WidthSkippedIfNarrower(input_data_width, output_data_width) ==
    output_data_width <= input_data_width
WidthSkipped(input_data_width, output_data_width) ==
    output_data_width >= input_data_width

WidthConfig(input_data_width, output_data_width, s) ==
    [entity |-> "axi_stream_width_converter_tb",
     name |-> "input_data_width=" \o ToString(input_data_width)
                  \o "," \o "output_data_width=" \o ToString(output_data_width),
     generics |-> [INPUT_DATA_WIDTH |-> input_data_width,
                   OUTPUT_DATA_WIDTH |-> output_data_width,
                   seed |-> s]]

\* for output_data_width in {1, 3, 8, 24, 32, 128} - {input_data_width}: ...
WidthInnerLoop(input_data_width, s) ==
    LET outs == InOrder(OutputDataWidths \ {input_data_width})
    IN Concat([k \in 1..Len(outs) |->
                  IF WidthSkipped(input_data_width, outs[k]) THEN <<>>
                  ELSE <<WidthConfig(input_data_width, outs[k], s)>>])

addAxiWidthConverterTests(s) ==
    LET ins == InOrder(InputDataWidths)
    IN << [entity |-> "axi_stream_width_converter_tb",
           name |-> "same_widths",
           generics |-> [INPUT_DATA_WIDTH |-> 32, OUTPUT_DATA_WIDTH |-> 32, seed |-> s]] >>
       \o Concat([i \in 1..Len(ins) |-> WidthInnerLoop(ins[i], s)])

addAxiEmbiggenerTests(s) ==
    << [entity |-> "axi_embiggener_tb",
        name |-> "input_data_width=" \o ToString(32) \o "," \o "output_data_width=" \o ToString(128),
        generics |-> [INPUT_DATA_WIDTH |-> 32, OUTPUT_DATA_WIDTH |-> 128, seed |-> s]] >>

\* entity.get_tests() of the arbiter testbench: the names, word by word
ArbiterTests ==
    << <<"test", "round", "robin", "basic">>,
       <<"test", "interleaved", "basic">>,
       <<"test", "absolute", "basic">>,
       <<"test", "reset">> >>

\* name.startswith(prefix), on words
StartsWith(name, prefix) ==
    Len(prefix) <= Len(name) /\ SubSeq(name, 1, Len(prefix)) = prefix

ArbiterConfig(test, mode, register_inputs, s) ==
    [entity |-> "axi_stream_arbiter_tb",
     test |-> test,
     name |-> "mode=" \o mode \o ",register_inputs="
                  \o (IF register_inputs THEN "True" ELSE "False"),
     generics |-> [MODE |-> mode, REGISTER_INPUTS |-> register_inputs, seed |-> s]]

\* the three "if test.name.startswith(...)" of one pass of the inner loop
ArbiterPass(test, register_inputs, s) ==
    (IF StartsWith(test, <<"test", "round", "robin">>)
     THEN <<ArbiterConfig(test, "ROUND_ROBIN", register_inputs, s)>> ELSE <<>>)
    \o (IF StartsWith(test, <<"test", "interleaved">>)
        THEN <<ArbiterConfig(test, "INTERLEAVED", register_inputs, s)>> ELSE <<>>)
    \o (IF StartsWith(test, <<"test", "absolute">>)
        THEN <<ArbiterConfig(test, "ABSOLUTE", register_inputs, s)>> ELSE <<>>)

addAxiArbiterTests(s) ==
    Concat([t \in 1..Len(ArbiterTests) |->
               ArbiterPass(ArbiterTests[t], TRUE, s) \o ArbiterPass(ArbiterTests[t], FALSE, s)])

\* "Add seed to other testbenches"
SeededEntities ==
    <<"axi_stream_frame_slicer_tb", "axi_stream_frame_padder_tb",
      "axi_stream_frame_fifo_tb", "axi_stream_replicate_tb">>

addWithSeed(s) ==
    [k \in 1..Len(SeededEntities) |->
        [entity |-> SeededEntities[k], name |-> "with_seed", generics |-> [seed |-> s]]]

(***************************************************************************)
(* main: the seed, then addTests call by call                              *)
(***************************************************************************)
\* the values random.randint is sampled at
SeedSamples ==
    {Wide(h, l) : h \in {-32769, -32768, -1, 0, 32767, 32768}, l \in {0, 1, 65535}}

\* random.randint(a, b): a <= N <= b
randint(a, b) == {x \in SeedSamples : WideLeq(a, x) /\ WideLeq(x, b)}

\* default=random.randint(-1 << 31, 1 << 31)
DefaultSeeds == randint(Shl31(-1), Shl31(1))

MatrixInit ==
    /\ fs = [f \in ReaderFiles \cup CompareFiles |-> Absent]
    /\ now = 0
    /\ gen_mtime = 0
    /\ configs = <<>>
    /\ seed = Wide(0, 0)
    /\ pc = "main"
    /\ outcome = "idle"
    /\ data_width = 1
    /\ length = 1
    /\ test_data = <<>>

Main ==
    /\ pc = "main"
    /\ seed' \in DefaultSeeds
    /\ pc' = "addAsyncFifoTests"
    /\ UNCHANGED <<fs, now, gen_mtime, configs, outcome, data_width, length, test_data>>

\* a call of addTests that touches no file
Registers(at, added, next) ==
    /\ pc = at
    /\ configs' = configs \o added
    /\ pc' = next
    /\ UNCHANGED <<fs, now, gen_mtime, seed, outcome, data_width, length, test_data>>

\* a call of addTests that may write files and may raise
Builds(at, r, next) ==
    /\ pc = at
    /\ fs' = r.fs
    /\ configs' = configs \o r.added
    /\ pc' = IF r.ok THEN next ELSE "raised"
    /\ outcome' = IF r.ok THEN "ok" ELSE "error"
    /\ UNCHANGED <<now, gen_mtime, seed, data_width, length, test_data>>

CallAsyncFifo ==
    Registers("addAsyncFifoTests", addAsyncFifoTests(seed), "addAxiStreamDelayTests")

CallStreamDelay ==
    Registers("addAxiStreamDelayTests", addAxiStreamDelayTests(seed), "addAxiFileReaderTests")

CallFileReader ==
    \E d \in Draws :
        \E r \in {addAxiFileReaderTests(fs, seed, d, now, gen_mtime)} :
            Builds("addAxiFileReaderTests", r, "addAxiFileCompareTests")

CallFileCompare ==
    \E d \in Draws :
        \E r \in {addAxiFileCompareTests(fs, seed, d, now)} :
            Builds("addAxiFileCompareTests", r, "addAxiWidthConverterTests")

CallWidthConverter ==
    Registers("addAxiWidthConverterTests", addAxiWidthConverterTests(seed),
              "addAxiEmbiggenerTests")

CallEmbiggener ==
    Registers("addAxiEmbiggenerTests", addAxiEmbiggenerTests(seed), "addAxiArbiterTests")

CallArbiter ==
    Registers("addAxiArbiterTests", addAxiArbiterTests(seed), "with_seed")

CallWithSeed ==
    Registers("with_seed", addWithSeed(seed), "done")

MatrixNext ==
    \/ Main
    \/ CallAsyncFifo
    \/ CallStreamDelay
    \/ CallFileReader
    \/ CallFileCompare
    \/ CallWidthConverter
    \/ CallEmbiggener
    \/ CallArbiter
    \/ CallWithSeed

SpecMatrix == MatrixInit /\ [][MatrixNext]_vars

\* the signed 32-bit range
InInt32(x) == WideLeq(Shl31(-1), x) /\ WideLeq(x, Wide(32767, 65535))

\* the seed a configuration carries
SeedOf(c) == IF "seed" \in DOMAIN c.generics THEN c.generics.seed ELSE c.generics.SEED

\* C7 as stated: the default seed, and the seed of every registered
\* configuration, lies in [-2^31, 2^31 - 1].
SeedInInt32Range ==
    pc # "main" =>
        /\ InInt32(seed)
        /\ \A i \in 1..Len(configs) : InInt32(SeedOf(configs[i]))

\* the configurations of the width converter testbench
WidthConfigs == SelectSeq(configs, LAMBDA c : c.entity = "axi_stream_width_converter_tb")

WidthConverterDone ==
    pc \in {"addAxiEmbiggenerTests", "addAxiArbiterTests", "with_seed", "done"}

\* C9: the width converter gets the baseline 32/32 exactly once, and
\* otherwise exactly one configuration for every pair of an input width of
\* {1, 8, 24, 32, 128} and a strictly smaller output width of
\* {1, 3, 8, 24, 32, 128}, all under distinct names.
WidthConverterFilter ==
    WidthConverterDone =>
        LET cs == WidthConfigs
            idx == 1..Len(cs)
            IsBaseline(c) == c.generics.INPUT_DATA_WIDTH = 32 /\ c.generics.OUTPUT_DATA_WIDTH = 32
        IN /\ Cardinality({i \in idx : IsBaseline(cs[i])}) = 1
           /\ \A i \in idx : IsBaseline(cs[i]) => cs[i].name = "same_widths"
           /\ \A i \in idx : ~IsBaseline(cs[i]) =>
                 /\ cs[i].generics.INPUT_DATA_WIDTH \in {1, 8, 24, 32, 128}
                 /\ cs[i].generics.OUTPUT_DATA_WIDTH \in {1, 3, 8, 24, 32, 128}
                 /\ cs[i].generics.OUTPUT_DATA_WIDTH < cs[i].generics.INPUT_DATA_WIDTH
           /\ \A a \in {1, 8, 24, 32, 128}, b \in {1, 3, 8, 24, 32, 128} :
                 b < a => Cardinality({i \in idx : /\ cs[i].generics.INPUT_DATA_WIDTH = a
                                                   /\ cs[i].generics.OUTPUT_DATA_WIDTH = b}) = 1
           /\ \A i, j \in idx : cs[i].name = cs[j].name => i = j

\* the matrix is complete: fifteen configurations, 128 -> 32 among them
WidthConverterWitness ==
    /\ pc = "done"
    /\ Len(WidthConfigs) = 15
    /\ \E i \in 1..Len(WidthConfigs) :
          /\ WidthConfigs[i].generics.INPUT_DATA_WIDTH = 128
          /\ WidthConfigs[i].generics.OUTPUT_DATA_WIDTH = 32
          /\ WidthConfigs[i].name = "input_data_width=128,output_data_width=32"

====
